---- MODULE Spec2Model ----
(***************************************************************************)
(* Print job spooler (spool.c): a global fixed-capacity job queue, an id   *)
(* counter, and three non-preemptive scheduling simulations (FCFS, SJF,    *)
(* Priority) that print a per-job wait/turnaround table and two averages.  *)
(*                                                                         *)
(* The model keeps the C data layout: job_queue is an array indexed from 0 *)
(* of which the first job_count slots are in use.  C ints are modelled as  *)
(* two's-complement integers of IntBits bits; MAX_JOBS and IntBits are     *)
(* scaled down from 100 and 32 so that a full queue and a clock that       *)
(* passes INT_MAX are both reachable.  qsort is the C library's: any       *)
(* arrangement the comparator accepts, the same one for the same array.    *)
(***************************************************************************)
EXTENDS Integers, Sequences, FiniteSets

\* ---------------------------------------------------------------- bounds
\* Capacity of job_queue (spool.c:16 has 100).
MAX_JOBS == 3
\* Width of the C type int in bits (32 on the program's targets).
IntBits == 7

Modulus == 2 ^ IntBits
INT_MAX == 2 ^ (IntBits - 1) - 1
INT_MIN == -(2 ^ (IntBits - 1))

\* Result of an int operation whose mathematical value is x.
ToInt(x) == ((x - INT_MIN) % Modulus) + INT_MIN

\* Values typed at the two prompts of addJob.  When a scanf of addJob
\* cannot read a number the field keeps the indeterminate value of the
\* uninitialised local, which is again some int.
PageCounts == {-1, 0, 1, 2, INT_MAX}
Priorities == {-1, 0, 1, 2}

\* ----------------------------------------------------------------- state
VARIABLES
    job_queue,    \* PrintJob job_queue[MAX_JOBS]
    job_count,    \* number of slots of job_queue in use
    next_job_id,  \* id the next accepted job receives
    pc,           \* where main is: "menu", "returned" or "stuck"
    out           \* what the last menu choice printed

vars == <<job_queue, job_count, next_job_id, pc, out>>
repo == <<job_queue, job_count, next_job_id>>

PrintJob(id, pages, prio) ==
    [job_id |-> id, page_count |-> pages, priority |-> prio]

\* A global array is zero-initialised.
ZeroJob == PrintJob(0, 0, 0)

\* One printed message: which handler, which message, its table rows and
\* the two averages (empty when the message has none).
Output(op, msg, rows, avgs) ==
    [op |-> op, msg |-> msg, rows |-> rows, avgs |-> avgs]

\* -------------------------------------------------------------- comparators
\* Variant: the operands of the subtraction are swapped.
compareSJF_Descending(jobA, jobB) == ToInt(jobB.page_count - jobA.page_count)

compareSJF(jobA, jobB) == ToInt(jobA.page_count - jobB.page_count)

\* Variant: the tie-breaker on job_id is left out.
comparePriority_NoTieBreak(jobA, jobB) ==
    ToInt(jobA.priority - jobB.priority)

comparePriority(jobA, jobB) ==
    IF jobA.priority # jobB.priority
    THEN ToInt(jobA.priority - jobB.priority)
    ELSE ToInt(jobA.job_id - jobB.job_id)

\* ------------------------------------------------------------------ qsort
Permutations(n) ==
    {p \in [0 .. n - 1 -> 0 .. n - 1] :
        \A i, j \in 0 .. n - 1 : p[i] = p[j] => i = j}

\* (*compar)(a, b): the call through the function pointer handed to qsort.
Call(compar, a, b) ==
    CASE compar = "compareSJF" -> compareSJF(a, b)
      [] compar = "comparePriority" -> comparePriority(a, b)

\* qsort(base, n, size, compar): the array is left in ascending order
\* according to compar; the order of two elements that compare equal is
\* unspecified, so every arrangement compar accepts is a possible result.
qsort(base, n, compar) ==
    {sorted \in {[i \in 0 .. n - 1 |-> base[p[i]]] : p \in Permutations(n)} :
        \A i, j \in 0 .. n - 1 :
            i < j => Call(compar, sorted[i], sorted[j]) <= 0}

\* Variant: the byte count lacks "* sizeof(PrintJob)", so only the first
\* element arrives; the other slots of temp_queue hold whatever was there.
memcpy_OneElement(src, n) ==
    [i \in 0 .. n - 1 |-> IF i = 0 THEN src[i] ELSE ZeroJob]

\* memcpy(temp_queue, job_queue, job_count * sizeof(PrintJob)): the slots
\* of temp_queue past job_count are never read.
memcpy(src, n) == [i \in 0 .. n - 1 |-> src[i]]

\* -------------------------------------------------------- calculateMetrics
RECURSIVE current_time(_, _)
\* The printer's clock when the loop reaches index i.
current_time(queue, i) ==
    IF i = 0 THEN 0
    ELSE ToInt(current_time(queue, i - 1) + queue[i - 1].page_count)

wait_time(queue, i) == current_time(queue, i)

turnaround_time(queue, i) == ToInt(wait_time(queue, i) + queue[i].page_count)

RECURSIVE total_wait_time(_, _)
total_wait_time(queue, count) ==
    IF count = 0 THEN 0
    ELSE total_wait_time(queue, count - 1) + wait_time(queue, count - 1)

RECURSIVE total_turnaround_time(_, _)
total_turnaround_time(queue, count) ==
    IF count = 0 THEN 0
    ELSE total_turnaround_time(queue, count - 1)
         + turnaround_time(queue, count - 1)

\* Variant: the totals are ints, so total / count truncates.
Average_Truncating(total, count) ==
    [num |-> IF total >= 0 THEN total \div count ELSE -((-total) \div count),
     den |-> 1]

\* total / count in double arithmetic: the two operands, both integers a
\* double holds exactly; the double their division yields is determined by
\* them and is worked out where it is printed.
Average(total, count) == [num |-> total, den |-> count]

\* Significand width of a double: total / count is the double nearest to
\* the exact quotient, a binary fraction of DBL_MANT_DIG significant bits.
DBL_MANT_DIG == 53

\* 2^k modulo d.
RECURSIVE PowerOfTwoMod(_, _)
PowerOfTwoMod(k, d) ==
    IF k = 0 THEN 1 % d ELSE (2 * PowerOfTwoMod(k - 1, d)) % d

\* The binary exponent of n / d: the e with 2^e <= n / d < 2^(e + 1),
\* for n > 0 and d > 0.
RECURSIVE BinaryExponent(_, _)
BinaryExponent(n, d) ==
    IF n < d THEN BinaryExponent(2 * n, d) - 1
    ELSE IF n < 2 * d THEN 0
    ELSE BinaryExponent(n, 2 * d) + 1

\* Where the double n / d lies relative to the exact quotient, for n > 0
\* and d > 0: 0 when the quotient is a double, -1 when the division rounded
\* down, 1 when it rounded up.  With k the number of fraction bits the
\* double keeps, the part of n * 2^k / d that is rounded away is
\* ((n * 2^k) % d) / d; it is never exactly one half, the totals (sums of
\* at most MAX_JOBS ints) having far fewer than DBL_MANT_DIG bits.
DoubleError(n, d) ==
    LET k   == DBL_MANT_DIG - 1 - BinaryExponent(n, d)
        rem == ((n % d) * PowerOfTwoMod(k, d)) % d
    IN  IF rem = 0 THEN 0 ELSE IF 2 * rem < d THEN -1 ELSE 1

\* printf("%.2f", avg), in hundredths: the decimal expansion of the double
\* avg rounded to two places, to nearest, a double exactly halfway going
\* to the even neighbour.  Sign and magnitude are treated separately, as
\* the division and the conversion are symmetric.  When the exact quotient
\* is not halfway between two hundredths the double is on the same side
\* (it differs from the quotient by less than 1 / (200 * count)); when it
\* is, the side is that of the division's rounding error, and only a
\* quotient that is itself a double is a tie.
Printf2f(avg) ==
    LET n  == IF avg.num < 0 THEN -avg.num ELSE avg.num
        d  == avg.den
        q  == (100 * n) \div d
        r  == (100 * n) % d
        up == IF 2 * r # d THEN 2 * r > d
              ELSE LET e == DoubleError(n, d)
                   IN  IF e = 0 THEN q % 2 = 1 ELSE e = 1
        hundredths == IF up THEN q + 1 ELSE q
    IN  IF avg.num < 0 THEN -hundredths ELSE hundredths

ResultRow(queue, i) ==
    [job_id |-> queue[i].job_id,
     page_count |-> queue[i].page_count,
     priority |-> queue[i].priority,
     wait_time |-> wait_time(queue, i),
     turnaround_time |-> turnaround_time(queue, i)]

calculateMetrics(queue, count, algorithmName) ==
    Output(algorithmName, "results",
           [k \in 1 .. count |-> ResultRow(queue, k - 1)],
           <<Average(total_wait_time(queue, count), count),
             Average(total_turnaround_time(queue, count), count)>>)

\* ---------------------------------------------------------------- actions
Init ==
    /\ job_queue = [i \in 0 .. MAX_JOBS - 1 |-> ZeroJob]
    /\ job_count = 0
    /\ next_job_id = 1
    /\ pc = "menu"
    /\ out = Output("main", "none", <<>>, <<>>)

\* Variant: the rejection path lacks "next_job_id--".
addJob_NoRollback(page_count, priority) ==
    /\ pc = "menu"
    /\ UNCHANGED pc
    /\ IF job_count >= MAX_JOBS
       THEN /\ out' = Output("addJob", "queue full", <<>>, <<>>)
            /\ UNCHANGED repo
       ELSE LET newJob == PrintJob(next_job_id, page_count, priority)
                incremented == ToInt(next_job_id + 1)
            IN  IF page_count <= 0 \/ priority <= 0
                THEN /\ out' = Output("addJob", "must be positive", <<>>, <<>>)
                     /\ next_job_id' = incremented
                     /\ UNCHANGED <<job_queue, job_count>>
                ELSE /\ job_queue' = [job_queue EXCEPT ![job_count] = newJob]
                     /\ job_count' = job_count + 1
                     /\ next_job_id' = incremented
                     /\ out' = Output("addJob", "success", <<newJob>>, <<>>)

\* Variant: the validation tests page_count only.
addJob_PagesOnly(page_count, priority) ==
    /\ pc = "menu"
    /\ UNCHANGED pc
    /\ IF job_count >= MAX_JOBS
       THEN /\ out' = Output("addJob", "queue full", <<>>, <<>>)
            /\ UNCHANGED repo
       ELSE LET newJob == PrintJob(next_job_id, page_count, priority)
                incremented == ToInt(next_job_id + 1)
            IN  IF page_count <= 0
                THEN /\ out' = Output("addJob", "must be positive", <<>>, <<>>)
                     /\ next_job_id' = ToInt(incremented - 1)
                     /\ UNCHANGED <<job_queue, job_count>>
                ELSE /\ job_queue' = [job_queue EXCEPT ![job_count] = newJob]
                     /\ job_count' = job_count + 1
                     /\ next_job_id' = incremented
                     /\ out' = Output("addJob", "success", <<newJob>>, <<>>)

\* Variant: the capacity test is "job_count > MAX_JOBS".
addJob_OffByOne(page_count, priority) ==
    /\ pc = "menu"
    /\ UNCHANGED pc
    /\ IF job_count > MAX_JOBS
       THEN /\ out' = Output("addJob", "queue full", <<>>, <<>>)
            /\ UNCHANGED repo
       ELSE LET newJob == PrintJob(next_job_id, page_count, priority)
                incremented == ToInt(next_job_id + 1)
            IN  IF page_count <= 0 \/ priority <= 0
                THEN /\ out' = Output("addJob", "must be positive", <<>>, <<>>)
                     /\ next_job_id' = ToInt(incremented - 1)
                     /\ UNCHANGED <<job_queue, job_count>>
                ELSE /\ job_queue' = [job_queue EXCEPT ![job_count] = newJob]
                     /\ job_count' = job_count + 1
                     /\ next_job_id' = incremented
                     /\ out' = Output("addJob", "success", <<newJob>>, <<>>)

\* Variant: job_count is incremented before the store, not after it.
addJob_IncrementFirst(page_count, priority) ==
    /\ pc = "menu"
    /\ UNCHANGED pc
    /\ IF job_count >= MAX_JOBS
       THEN /\ out' = Output("addJob", "queue full", <<>>, <<>>)
            /\ UNCHANGED repo
       ELSE LET newJob == PrintJob(next_job_id, page_count, priority)
                incremented == ToInt(next_job_id + 1)
            IN  IF page_count <= 0 \/ priority <= 0
                THEN /\ out' = Output("addJob", "must be positive", <<>>, <<>>)
                     /\ next_job_id' = ToInt(incremented - 1)
                     /\ UNCHANGED <<job_queue, job_count>>
                ELSE /\ job_count' = job_count + 1
                     /\ job_queue' = [i \in 0 .. MAX_JOBS - 1 |->
                                        IF i = job_count' THEN newJob
                                        ELSE job_queue[i]]
                     /\ next_job_id' = incremented
                     /\ out' = Output("addJob", "success", <<newJob>>, <<>>)

addJob(page_count, priority) ==
    /\ pc = "menu"
    /\ UNCHANGED pc
    /\ IF job_count >= MAX_JOBS
       THEN /\ out' = Output("addJob", "queue full", <<>>, <<>>)
            /\ UNCHANGED repo
       ELSE LET newJob == PrintJob(next_job_id, page_count, priority)
                incremented == ToInt(next_job_id + 1)
            IN  IF page_count <= 0 \/ priority <= 0
                THEN /\ out' = Output("addJob", "must be positive", <<>>, <<>>)
                     /\ next_job_id' = ToInt(incremented - 1)
                     /\ UNCHANGED <<job_queue, job_count>>
                ELSE /\ job_queue' = [job_queue EXCEPT ![job_count] = newJob]
                     /\ job_count' = job_count + 1
                     /\ next_job_id' = incremented
                     /\ out' = Output("addJob", "success", <<newJob>>, <<>>)

displayQueue ==
    /\ pc = "menu"
    /\ UNCHANGED <<repo, pc>>
    /\ IF job_count = 0
       THEN out' = Output("displayQueue", "queue empty", <<>>, <<>>)
       ELSE out' = Output("displayQueue", "queue",
                          [k \in 1 .. job_count |-> job_queue[k - 1]], <<>>)

\* Variant: FCFS sorts a copy by page_count like runSJF does.
runFCFS_Sorted ==
    /\ pc = "menu"
    /\ UNCHANGED <<repo, pc>>
    /\ IF job_count = 0
       THEN out' = Output("runFCFS", "cannot run: queue empty", <<>>, <<>>)
       ELSE \E temp_queue \in qsort(memcpy(job_queue, job_count), job_count,
                                "compareSJF") :
                /\ out' = calculateMetrics(temp_queue, job_count, "runFCFS")

runFCFS ==
    /\ pc = "menu"
    /\ UNCHANGED <<repo, pc>>
    /\ IF job_count = 0
       THEN out' = Output("runFCFS", "cannot run: queue empty", <<>>, <<>>)
       ELSE out' = calculateMetrics(job_queue, job_count, "runFCFS")

\* Variant: the emptiness test is missing.
runSJF_NoEmptyCheck ==
    /\ pc = "menu"
    /\ UNCHANGED <<repo, pc>>
    /\ \E temp_queue \in qsort(memcpy(job_queue, job_count), job_count,
                                "compareSJF") :
           /\ out' = calculateMetrics(temp_queue, job_count, "runSJF")

\* Variant: qsort is applied to job_queue itself, not to a copy.
runSJF_InPlace ==
    /\ pc = "menu"
    /\ UNCHANGED <<job_count, next_job_id, pc>>
    /\ IF job_count = 0
       THEN /\ out' = Output("runSJF", "cannot run: queue empty", <<>>, <<>>)
            /\ UNCHANGED job_queue
       ELSE \E sorted \in qsort(memcpy(job_queue, job_count), job_count,
                                "compareSJF") :
                /\ job_queue' = [i \in 0 .. MAX_JOBS - 1 |->
                                    IF i < job_count THEN sorted[i]
                                    ELSE job_queue[i]]
                /\ out' = calculateMetrics(job_queue', job_count, "runSJF")

runSJF ==
    /\ pc = "menu"
    /\ UNCHANGED <<repo, pc>>
    /\ IF job_count = 0
       THEN out' = Output("runSJF", "cannot run: queue empty", <<>>, <<>>)
       ELSE \E temp_queue \in qsort(memcpy(job_queue, job_count), job_count,
                                "compareSJF") :
                /\ out' = calculateMetrics(temp_queue, job_count, "runSJF")

runPriority ==
    /\ pc = "menu"
    /\ UNCHANGED <<repo, pc>>
    /\ IF job_count = 0
       THEN out' = Output("runPriority", "cannot run: queue empty", <<>>, <<>>)
       ELSE \E temp_queue \in qsort(memcpy(job_queue, job_count), job_count,
                                "comparePriority") :
                /\ out' = calculateMetrics(temp_queue, job_count, "runPriority")

exit ==
    /\ pc = "menu"
    /\ pc' = "returned"
    /\ out' = Output("main", "goodbye", <<>>, <<>>)
    /\ UNCHANGED repo

invalidChoice ==
    /\ pc = "menu"
    /\ out' = Output("main", "invalid choice", <<>>, <<>>)
    /\ UNCHANGED <<repo, pc>>

\* main, lines 79-84: the menu is answered with something scanf("%d")
\* cannot read, such as a word, or what is left of a line after the number
\* a handler read, or the line a failed scanf of addJob left behind.  The
\* rest of the line is discarded and the menu comes again.
invalidInput ==
    /\ pc = "menu"
    /\ out' = Output("main", "invalid input", <<>>, <<>>)
    /\ UNCHANGED <<repo, pc>>

\* main, lines 79-81: the input ends at the menu.  scanf fails, and the
\* loop "while (getchar() != '\n');" never ends, for getchar returns EOF
\* from then on: nothing more is printed and main does not return.
endOfInput ==
    /\ pc = "menu"
    /\ pc' = "stuck"
    /\ UNCHANGED <<repo, out>>

\* main: one pass of the menu loop.
Next ==
    \/ \E page_count \in PageCounts, priority \in Priorities :
           addJob(page_count, priority)
    \/ displayQueue
    \/ runFCFS
    \/ runSJF
    \/ runPriority
    \/ exit
    \/ invalidChoice
    \/ invalidInput
    \/ endOfInput

Spec == Init /\ [][Next]_vars

\* The same program fed with the submissions of the worked example of the
\* specification, in any order and number, and one invalid submission.
ScenarioInputs == {<<10, 2>>, <<5, 1>>, <<20, 3>>, <<0, -1>>}

NextScenario ==
    \/ \E input \in ScenarioInputs : addJob(input[1], input[2])
    \/ displayQueue
    \/ runFCFS
    \/ runSJF
    \/ runPriority
    \/ exit
    \/ invalidChoice
    \/ invalidInput
    \/ endOfInput

SpecScenario == Init /\ [][NextScenario]_vars


\* ================================================================ claims
SimOps == {"runFCFS", "runSJF", "runPriority"}

\* The last menu choice was a simulation that printed a results table.
Simulated(op) == out.op = op /\ out.msg = "results"

\* The rows of a table ascend by the field key, and rows of equal key by
\* job_id.
OrderedBy(rows, key) ==
    \A i, j \in 1 .. Len(rows) :
        i < j => \/ rows[i][key] < rows[j][key]
                 \/ /\ rows[i][key] = rows[j][key]
                    /\ rows[i].job_id < rows[j].job_id

\* C1: the accepted jobs carry the ids 1, 2, ..., n in submission order and
\* the id counter is n + 1, whatever submissions were rejected in between.
C1_IdsSequential ==
    /\ next_job_id = job_count + 1
    /\ \A i \in 0 .. job_count - 1 : job_queue[i].job_id = i + 1

\* A submission was just rejected by validation with two jobs accepted.
C1_Witness ==
    /\ out.op = "addJob" /\ out.msg = "must be positive"
    /\ job_count = 2

\* C2: an SJF table is non-decreasing in size, and jobs of equal size appear
\* in submission order (lower id first).
C2_SJFStable ==
    Simulated("runSJF") => OrderedBy(out.rows, "page_count")

\* C3: a Priority table is non-decreasing in priority value, and jobs of
\* equal priority appear in submission order (lower id first).
C3_PriorityStable ==
    Simulated("runPriority") => OrderedBy(out.rows, "priority")

\* A Priority table of three jobs that is not in submission order and has
\* two jobs of equal priority.
C3_Witness ==
    /\ Simulated("runPriority")
    /\ Len(out.rows) = 3
    /\ out.rows[1].job_id = 3
    /\ out.rows[2].priority = out.rows[3].priority
    /\ out.rows[2].page_count > out.rows[3].page_count

\* C4: in every results table the first wait time is 0, each later wait
\* time is the previous wait time plus the previous size, and each
\* turnaround time is the job's wait time plus its size.
C4_Timeline ==
    \A op \in SimOps :
        Simulated(op) =>
            /\ out.rows[1].wait_time = 0
            /\ \A k \in 2 .. Len(out.rows) :
                   out.rows[k].wait_time
                       = out.rows[k - 1].wait_time + out.rows[k - 1].page_count
            /\ \A k \in 1 .. Len(out.rows) :
                   out.rows[k].turnaround_time
                       = out.rows[k].wait_time + out.rows[k].page_count

\* C5: a simulation requested on an empty queue, under any policy, prints
\* the empty-queue error, no table row and no average, and leaves the
\* repository as it was.
C5_EmptySimulation ==
    [][(job_count = 0 /\ out'.op \in SimOps) =>
           /\ out'.msg = "cannot run: queue empty"
           /\ out'.rows = <<>>
           /\ out'.avgs = <<>>
           /\ UNCHANGED repo]_vars

\* SJF was requested on the empty queue.
C5_Witness ==
    /\ job_count = 0
    /\ out.op = "runSJF"

\* Some submit with size <= 0 or priority <= 0 makes this step.
InvalidSubmit ==
    /\ out'.op = "addJob"
    /\ \E page_count \in PageCounts, priority \in Priorities :
           /\ page_count <= 0 \/ priority <= 0
           /\ addJob(page_count, priority)

\* C6 as stated: every submit with size <= 0 or priority <= 0 is rejected
\* with the validation error and changes nothing of the repository.
C6_InvalidRejected ==
    [][InvalidSubmit =>
           /\ out'.msg = "must be positive"
           /\ UNCHANGED repo]_vars

\* C6 amended: a submit with size <= 0 or priority <= 0 changes nothing of
\* the repository; it is rejected with the validation error when the queue
\* has room and with the capacity error when the queue is full.
C6_InvalidRejectedAmended ==
    [][InvalidSubmit =>
           /\ out'.msg = IF job_count < MAX_JOBS THEN "must be positive"
                         ELSE "queue full"
           /\ UNCHANGED repo]_vars

\* A submission was just rejected by validation with one job accepted.
C6_Witness ==
    /\ out.op = "addJob" /\ out.msg = "must be positive"
    /\ job_count = 1

\* C7: the job count never exceeds MAX_JOBS, and a submit on a full queue
\* prints the capacity error and changes nothing of the repository.
C7_Capacity ==
    /\ [](job_count <= MAX_JOBS)
    /\ [][(/\ job_count >= MAX_JOBS
            /\ out'.op = "addJob"
            /\ \E page_count \in PageCounts, priority \in Priorities :
                   addJob(page_count, priority)) =>
              /\ out'.msg = "queue full"
              /\ UNCHANGED repo]_vars

\* A submission was just rejected for capacity.
C7_Witness ==
    /\ out.op = "addJob" /\ out.msg = "queue full"
    /\ job_count = MAX_JOBS

\* C8: only addJob changes job_queue, job_count or next_job_id; a
\* simulation under any policy and a listing leave all three as they were.
C8_ReadOnly ==
    [][out'.op # "addJob" => UNCHANGED repo]_vars

\* An SJF table that is not in submission order, with the queue still in
\* submission order.
C8_Witness ==
    /\ Simulated("runSJF")
    /\ job_count = 3
    /\ out.rows[1].job_id = 3
    /\ \A i \in 0 .. job_count - 1 : job_queue[i].job_id = i + 1

\* C9: the rows of every results table are a permutation of the jobs of
\* the repository: as many rows as jobs, and every job, with its id, size
\* and priority, in exactly one row.
C9_Permutation ==
    \A op \in SimOps :
        Simulated(op) =>
            /\ Len(out.rows) = job_count
            /\ \A i \in 0 .. job_count - 1 :
                   Cardinality({k \in 1 .. Len(out.rows) :
                       /\ out.rows[k].job_id = job_queue[i].job_id
                       /\ out.rows[k].page_count = job_queue[i].page_count
                       /\ out.rows[k].priority = job_queue[i].priority}) = 1

\* A Priority table of three jobs served in the order 2, 3, 1.
C9_Witness ==
    /\ Simulated("runPriority")
    /\ Len(out.rows) = 3
    /\ out.rows[1].job_id = 2
    /\ out.rows[2].job_id = 3
    /\ out.rows[3].job_id = 1

\* C10: the rows of an FCFS table are the jobs of the repository in
\* submission order: row k is the job with id k.
C10_FCFSOrder ==
    Simulated("runFCFS") =>
        /\ Len(out.rows) = job_count
        /\ \A k \in 1 .. job_count :
               /\ out.rows[k].job_id = k
               /\ out.rows[k].page_count = job_queue[k - 1].page_count
               /\ out.rows[k].priority = job_queue[k - 1].priority

\* An FCFS table of a full queue whose sizes and priorities both decrease.
C10_Witness ==
    /\ Simulated("runFCFS")
    /\ Len(out.rows) = MAX_JOBS
    /\ out.rows[1].page_count > out.rows[2].page_count
    /\ out.rows[1].priority > out.rows[2].priority

\* The sum of one column of the first k rows of a table.
RECURSIVE ColumnSum(_, _, _)
ColumnSum(rows, column, k) ==
    IF k = 0 THEN 0 ELSE ColumnSum(rows, column, k - 1) + rows[k][column]

\* C11: in every results table of n >= 1 rows, n times the average wait is
\* the sum of the wait times of the rows and n times the average
\* turnaround is the sum of their turnaround times (the averages being
\* quotients num/den, the equations are cross-multiplied).
C11_Averages ==
    \A op \in SimOps :
        Simulated(op) =>
            LET n == Len(out.rows)
            IN  /\ n >= 1
                /\ out.avgs[1].den > 0 /\ out.avgs[2].den > 0
                /\ n * out.avgs[1].num
                       = ColumnSum(out.rows, "wait_time", n) * out.avgs[1].den
                /\ n * out.avgs[2].num
                       = ColumnSum(out.rows, "turnaround_time", n)
                             * out.avgs[2].den

\* A table of three rows whose wait times sum to 4 and whose turnaround
\* times sum to 8, neither a multiple of 3.
C11_Witness ==
    /\ Simulated("runPriority")
    /\ Len(out.rows) = 3
    /\ ColumnSum(out.rows, "wait_time", 3) = 4
    /\ ColumnSum(out.rows, "turnaround_time", 3) = 8

\* One row of a results table.
Row(id, pages, prio, wait, turnaround) ==
    [job_id |-> id, page_count |-> pages, priority |-> prio,
     wait_time |-> wait, turnaround_time |-> turnaround]

\* The accepted submissions were (10, 2), (5, 1), (20, 3), in this order.
ScenarioSubmitted ==
    /\ job_count = 3
    /\ \A i \in 0 .. 2 :
           <<job_queue[i].page_count, job_queue[i].priority>>
               = <<<<10, 2>>, <<5, 1>>, <<20, 3>>>>[i + 1]

\* C12: after the submissions (10, 2), (5, 1), (20, 3) the jobs have the ids
\* 1, 2, 3; FCFS serves 1, 2, 3 with waits 0, 10, 15, turnarounds 10, 15, 35
\* and averages 25/3 (printed 8.33) and 60/3 (printed 20.00); SJF and
\* Priority serve 2, 1, 3 with waits 0, 5, 15, turnarounds 5, 15, 35 and
\* averages 20/3 (printed 6.67) and 55/3 (printed 18.33).
C12_Scenario ==
    ScenarioSubmitted =>
        /\ \A i \in 0 .. 2 : job_queue[i].job_id = i + 1
        /\ Simulated("runFCFS") =>
               /\ out.rows = <<Row(1, 10, 2, 0, 10), Row(2, 5, 1, 10, 15),
                               Row(3, 20, 3, 15, 35)>>
               /\ 3 * out.avgs[1].num = 25 * out.avgs[1].den
               /\ 3 * out.avgs[2].num = 60 * out.avgs[2].den
               /\ Printf2f(out.avgs[1]) = 833
               /\ Printf2f(out.avgs[2]) = 2000
        /\ Simulated("runSJF") \/ Simulated("runPriority") =>
               /\ out.rows = <<Row(2, 5, 1, 0, 5), Row(1, 10, 2, 5, 15),
                               Row(3, 20, 3, 15, 35)>>
               /\ 3 * out.avgs[1].num = 20 * out.avgs[1].den
               /\ 3 * out.avgs[2].num = 55 * out.avgs[2].den
               /\ Printf2f(out.avgs[1]) = 667
               /\ Printf2f(out.avgs[2]) = 1833

\* SJF was run on the three jobs of the example.
C12_Witness ==
    /\ ScenarioSubmitted
    /\ Simulated("runSJF")

\* C13: running a policy again on an unchanged repository prints the same
\* table: the same rows in the same order with the same wait and
\* turnaround times, and the same averages.  Stated of a run that follows
\* a run of the same policy directly.
C13_SameReport ==
    [][(out.op \in SimOps /\ out.msg = "results"
        /\ out'.op = out.op /\ repo' = repo) => out' = out]_vars

\* C14: no step lowers the job count or changes a job already in the
\* queue, and an accepted submit raises the job count and the next id by
\* one and puts a job with the next id and the given size and priority in
\* the first free slot.
C14_AppendOnly ==
    [][/\ job_count' >= job_count
       /\ \A i \in 0 .. job_count - 1 : job_queue'[i] = job_queue[i]
       /\ \A page_count \in PageCounts, priority \in Priorities :
              (out'.msg = "success" /\ addJob(page_count, priority)) =>
                  /\ job_count' = job_count + 1
                  /\ next_job_id' = next_job_id + 1
                  /\ job_queue'[job_count]
                         = PrintJob(next_job_id, page_count, priority)]_vars

\* The submit that filled the queue was just accepted.
C14_Witness ==
    /\ out.op = "addJob" /\ out.msg = "success"
    /\ job_count = MAX_JOBS
    /\ out.rows[1] = job_queue[MAX_JOBS - 1]

\* C15: the wait times of an SJF table sum to no more than the wait times
\* FCFS and Priority report for the same jobs.
C15_SJFShortestWait ==
    Simulated("runSJF") =>
        /\ out.avgs[1].num <= total_wait_time(job_queue, job_count)
        /\ \A byPriority \in qsort(memcpy(job_queue, job_count), job_count,
                                    "comparePriority") :
               out.avgs[1].num <= total_wait_time(byPriority, job_count)

\* The sum of the sizes of the first k jobs of the queue.
RECURSIVE QueuePages(_)
QueuePages(k) ==
    IF k = 0 THEN 0 ELSE QueuePages(k - 1) + job_queue[k - 1].page_count

\* C16: under every policy the turnaround time of the last row of a table
\* is the sum of the sizes of all jobs of the repository.
C16_Makespan ==
    \A op \in SimOps :
        Simulated(op) =>
            out.rows[Len(out.rows)].turnaround_time = QueuePages(job_count)

\* C17: in every results table the wait times are >= 0 and do not decrease
\* from one row to the next, and every turnaround time is greater than the
\* wait time of its row.
C17_NoOverflow ==
    \A op \in SimOps :
        Simulated(op) =>
            /\ \A k \in 1 .. Len(out.rows) :
                   /\ out.rows[k].wait_time >= 0
                   /\ out.rows[k].turnaround_time > out.rows[k].wait_time
            /\ \A k \in 2 .. Len(out.rows) :
                   out.rows[k].wait_time >= out.rows[k - 1].wait_time

====
